---- MODULE Spec2Model ----
(***************************************************************************)
(* A model of ytdlpWrapper: the playlist reconciler (ExtractPlaylistToDB   *)
(* over the playlists / playlist_videos tables) and the download job       *)
(* runner (RunHeadless, its cancellation listener and the process wait).   *)
(*                                                                         *)
(* The store is SQLite: a table is a sequence of rows in insertion (rowid) *)
(* order, a uuid primary key is the row's position, and the empty          *)
(* playlist_id '' is 0.  Every store call returns an error value in the    *)
(* code, so every store call may fail here; the number of failures in one  *)
(* behaviour is bounded by MaxFaults.                                      *)
(***************************************************************************)
EXTENDS Integers, Sequences, FiniteSets, TLC

\* ------------------------------------------------------------------ bounds
MaxSyncRuns == 2
MaxJobs == 2
MaxFaults == 1
MaxLines == 2
MaxParts == 3
MaxVideos == 2
MaxSubmits == 3

\* ------------------------------------------------------------ input domains
PlaylistUrls == {"https://x/playlist?list=PL1", "https://x/@name/videos"}
VideoIds == {"v1", "v2"}
VideoUrls == {"https://x/watch?v=1"}

\* What a run of the download process can leave in the output directory: the
\* finished file, partial files under the three suffixes, a directory whose
\* name ends in .part.
FileMp4 == [name |-> "a.mp4", ext |-> ".mp4", isDir |-> FALSE]
FilePart == [name |-> "a.mp4.part", ext |-> ".part", isDir |-> FALSE]
FileYtdl == [name |-> "a.mp4.ytdl", ext |-> ".ytdl", isDir |-> FALSE]
FileTemp == [name |-> "a.temp", ext |-> ".temp", isDir |-> FALSE]
DirPart == [name |-> "d.part", ext |-> ".part", isDir |-> TRUE]
ArtifactSets == {{}, {FileMp4}, {FilePart, FileYtdl, FileTemp, DirPart}}

\* The output lines of the download process, each with what the handler's
\* patterns find in it: dest, the path destinationRegex captures; dl, the
\* line contains "[download]" and "%"; pct and eta, what progressRegex and
\* etaRegex capture.  A path is its directory, the file name without its
\* last extension, and that extension.
NoPath == [dir |-> "", stem |-> "", ext |-> ""]
PathA == [dir |-> "downloads", stem |-> "a.f137", ext |-> ".mp4"]
PathB == [dir |-> "downloads", stem |-> "b", ext |-> ".webm"]
NoLine ==
  [text |-> "", dest |-> NoPath, dl |-> FALSE, pct |-> "", eta |-> ""]
LineDestA ==
  [text |-> "[download] Destination: downloads/a.f137.mp4", dest |-> PathA,
   dl |-> FALSE, pct |-> "", eta |-> ""]
LineDestB ==
  [text |-> "[download] Destination: downloads/b.webm", dest |-> PathB,
   dl |-> FALSE, pct |-> "", eta |-> ""]
LineAlready ==
  [text |-> "[download] downloads/b.webm has already been downloaded",
   dest |-> NoPath, dl |-> FALSE, pct |-> "", eta |-> ""]
LineProg50 ==
  [text |-> "[download]  50.0% of 10.00MiB at 1.00MiB/s ETA 00:05",
   dest |-> NoPath, dl |-> TRUE, pct |-> "50.0", eta |-> "00:05"]
LineProg100 ==
  [text |-> "[download] 100% of 10.00MiB in 00:10", dest |-> NoPath,
   dl |-> TRUE, pct |-> "100", eta |-> ""]
Lines == {LineDestA, LineDestB, LineAlready, LineProg50, LineProg100}

\* ytdlp.go:107-108: the two reader tasks.
Readers == {"stdout", "stderr"}

\* ------------------------------------------------------------------- text
\* Where the code looks inside a string, the string is the sequence of its
\* characters.  The operators below are Go's package strings, with Go's
\* 0-based indices.
Min(S) == CHOOSE x \in S : \A y \in S : x <= y

\* A local variable of the code: F of the value of x, x evaluated once.
Let(x, F(_)) == CHOOSE r \in {F(v) : v \in {x}} : TRUE

HasSuffix(s, suffix) ==
  Let(s, LAMBDA v :
    /\ Len(v) >= Len(suffix)
    /\ SubSeq(v, Len(v) - Len(suffix) + 1, Len(v)) = suffix)

TrimSuffix(s, suffix) ==
  Let(s, LAMBDA v :
    IF HasSuffix(v, suffix) THEN SubSeq(v, 1, Len(v) - Len(suffix)) ELSE v)

Index(s, substr) ==
  Let(s, LAMBDA v :
    Let({i \in 0..(Len(v) - Len(substr)) :
           SubSeq(v, i + 1, i + Len(substr)) = substr},
        LAMBDA at : IF at = {} THEN -1 ELSE Min(at)))

Contains(s, substr) == Index(s, substr) # -1

RECURSIVE Split(_, _)
Split(s, sep) ==
  Let(s, LAMBDA v :
    Let(Index(v, sep), LAMBDA i :
      IF i = -1 THEN <<v>>
      ELSE <<SubSeq(v, 1, i)>>
             \o Split(SubSeq(v, i + Len(sep) + 1, Len(v)), sep)))

\* The string literals of the code and the strings of the input domains, as
\* texts.
EmptyText == <<>>
NA == <<"N", "A">>

Text(str) ==
  CASE str = "/" ->
         <<"/">>
    [] str = "@" ->
         <<"@">>
    [] str = "/videos" ->
         <<"/", "v", "i", "d", "e", "o", "s">>
    [] str = "/shorts" ->
         <<"/", "s", "h", "o", "r", "t", "s">>
    [] str = "/streams" ->
         <<"/", "s", "t", "r", "e", "a", "m", "s">>
    [] str = "/playlists" ->
         <<"/", "p", "l", "a", "y", "l", "i", "s", "t", "s">>
    [] str = "/community" ->
         <<"/", "c", "o", "m", "m", "u", "n", "i", "t", "y">>
    [] str = "/about" ->
         <<"/", "a", "b", "o", "u", "t">>
    [] str = "?" ->
         <<"?">>
    [] str = "?feature=a" ->
         <<"?", "f", "e", "a", "t", "u", "r", "e", "=", "a">>
    [] str = "/@" ->
         <<"/", "@">>
    [] str = "/channel/" ->
         <<"/", "c", "h", "a", "n", "n", "e", "l", "/">>
    [] str = "/c/" ->
         <<"/", "c", "/">>
    [] str = "/user/" ->
         <<"/", "u", "s", "e", "r", "/">>
    [] str = "Unknown Channel" ->
         <<"U", "n", "k", "n", "o", "w", "n", " ", "C", "h", "a", "n", "n",
           "e", "l">>
    [] str = "https://x/@name" ->
         <<"h", "t", "t", "p", "s", ":", "/", "/", "x", "/", "@", "n", "a",
           "m", "e">>
    [] str = "https://x/playlist?list=PL1" ->
         <<"h", "t", "t", "p", "s", ":", "/", "/", "x", "/", "p", "l", "a",
           "y", "l", "i", "s", "t", "?", "l", "i", "s", "t", "=", "P", "L",
           "1">>
    [] str = "https://x/@name/videos" ->
         <<"h", "t", "t", "p", "s", ":", "/", "/", "x", "/", "@", "n", "a",
           "m", "e", "/", "v", "i", "d", "e", "o", "s">>
    [] str = "https://x/watch?v=1" ->
         <<"h", "t", "t", "p", "s", ":", "/", "/", "x", "/", "w", "a", "t",
           "c", "h", "?", "v", "=", "1">>
    [] str = "/playlist" ->
         <<"/", "p", "l", "a", "y", "l", "i", "s", "t">>
    [] str = "list=" ->
         <<"l", "i", "s", "t", "=">>
    [] str = "/playlists/" ->
         <<"/", "p", "l", "a", "y", "l", "i", "s", "t", "s", "/">>
    [] str = "T" ->
         <<"T">>
    [] str = "P" ->
         <<"P">>
    [] str = "V" ->
         <<"V">>
    [] str = "https://x/channel/UC2" ->
         <<"h", "t", "t", "p", "s", ":", "/", "/", "x", "/", "c", "h", "a",
           "n", "n", "e", "l", "/", "U", "C", "2">>
    [] str = "UC1" ->
         <<"U", "C", "1">>
    [] str = "https://www.youtube.com/channel/" ->
         <<"h", "t", "t", "p", "s", ":", "/", "/", "w", "w", "w", ".", "y",
           "o", "u", "t", "u", "b", "e", ".", "c", "o", "m", "/", "c", "h",
           "a", "n", "n", "e", "l", "/">>
    [] str = "@name" ->
         <<"@", "n", "a", "m", "e">>

\* utils.go:42-47.
IsChannelURL(urlStr) ==
  \/ Contains(urlStr, Text("/channel/"))
  \/ Contains(urlStr, Text("/@"))
  \/ Contains(urlStr, Text("/c/"))
  \/ Contains(urlStr, Text("/user/"))

ChannelUrls == {url \in PlaylistUrls : IsChannelURL(Text(url))}

\* utils.go:50-56.
IsPlaylistURL(urlStr) ==
  \/ Contains(urlStr, Text("/playlist"))
  \/ Contains(urlStr, Text("list="))
  \/ Contains(urlStr, Text("/playlists/"))
  \/ IsChannelURL(urlStr)

\* utils.go:17-23: the first suffix of the list the string ends with is
\* removed, and no other.
suffixes ==
  <<Text("/videos"), Text("/shorts"), Text("/streams"), Text("/playlists"),
    Text("/community"), Text("/about")>>

RECURSIVE TrimFirstSuffix(_, _)
TrimFirstSuffix(s, list) ==
  Let(list, LAMBDA l :
    IF l = <<>> THEN s
    ELSE IF HasSuffix(s, Head(l)) THEN TrimSuffix(s, Head(l))
    ELSE TrimFirstSuffix(s, Tail(l)))

\* utils.go:26-28.
CutQuery(s) ==
  Let(s, LAMBDA v :
    Let(Index(v, Text("?")), LAMBDA idx :
      IF idx # -1 THEN SubSeq(v, 1, idx) ELSE v))

\* utils.go:34-38: an empty result gives the input back.
KeepEmpty(cleaned, original) == cleaned
OriginalIfEmpty(cleaned, original) ==
  IF cleaned = EmptyText THEN original ELSE cleaned

\* utils.go:9-39.
CleanChannelURL(urlStr) ==
  Let(urlStr, LAMBDA original :
    IF original = EmptyText \/ original = NA THEN EmptyText
    ELSE Let(TrimSuffix(CutQuery(TrimFirstSuffix(original, suffixes)),
                        Text("/")),
             LAMBDA cleaned : OriginalIfEmpty(cleaned, original)))


\* Every snapshot ExtractPlaylist can return: the ids of the listed videos in
\* listing order, the same id possibly more than once, possibly none.
Snapshots == UNION {[1..n -> VideoIds] : n \in 0..Cardinality(VideoIds)}

\* Longer listings: three or four distinct videos out of four, "v1" first.
ManyVideoIds == {"v1", "v2", "v3", "v4"}
LongSnapshots ==
  {s \in [1..3 -> ManyVideoIds] \cup [1..4 -> ManyVideoIds] :
     /\ s[1] = "v1"
     /\ \A i, j \in DOMAIN s : i # j => s[i] # s[j]}

VARIABLES
  mode,        \* what the invocations of a behaviour run
  faults,      \* store and filesystem calls that have failed so far
  playlists,   \* table playlists: Seq of [url, total, saved, downloaded]
  videos,      \* table playlist_videos: Seq of [pid, vid, idx]
  syncRuns,    \* ExtractPlaylistToDB calls so far
  lastSync,    \* what the latest ExtractPlaylistToDB call did
  downloads,   \* table downloads: Seq of job records
  dir,         \* the entries of the output directory
  runCalls,    \* RunHeadless calls so far
  run,         \* the RunHeadless call in progress, or the last one
  nLines,      \* output lines the download processes have written so far
  cleanCall,   \* a CleanChannelURL call: its argument and its results
  listing,     \* an ExtractPlaylist call: its inputs and its result
  tui          \* the interactive front-end: its model and its commands

syncVars == <<playlists, videos, syncRuns, lastSync>>
runVars == <<downloads, dir, runCalls, run, nLines>>
auxVars == <<cleanCall, listing, tui>>
vars == <<mode, faults, syncVars, runVars, auxVars>>

\* lastSync.clean: no store call failed in the call.  lastSync.repeats: the
\* call before it was for the same URL, got the same snapshot, reached the
\* reconciliation and was clean.
NoSync ==
  [url |-> "", outcome |-> "none", path |-> "none", snap |-> <<>>, pid |-> 0,
   inserted |-> 0, savedBefore |-> 0, clean |-> TRUE, repeats |-> FALSE,
   installed |-> TRUE, procs |-> 0]

\* -------------------------------------------------------------- the store

NeverFound(pls, url) == 0

\* db.go GetPlaylistByURL: the first row with that url (QueryRow keeps the
\* first row of the result), 0 for sql.ErrNoRows.
GetPlaylistByURL(pls, url) ==
  LET hits == {i \in DOMAIN pls : pls[i].url = url}
  IN IF hits = {} THEN 0 ELSE CHOOSE i \in hits : \A j \in hits : i <= j

AlwaysAbsent(rows, pid, vid) == FALSE

\* db.go VideoExistsInPlaylist: COUNT(*) > 0 over (playlist_id, video_id).
VideoExistsInPlaylist(rows, pid, vid) ==
  \E i \in DOMAIN rows : rows[i].pid = pid /\ rows[i].vid = vid

\* db.go InsertPlaylistVideo: a plain INSERT; the schema has no UNIQUE
\* constraint on (playlist_id, video_id), so it never rejects a duplicate.
InsertPlaylistVideo(rows, pid, vid, index) ==
  Append(rows, [pid |-> pid, vid |-> vid, idx |-> index])

InsertPlaylistFull(pls, url, totalVideos, videosSaved) ==
  Append(pls, [url |-> url, total |-> totalVideos, saved |-> totalVideos,
               downloaded |-> 0])

\* db.go InsertPlaylist: a plain INSERT (url is indexed, not UNIQUE);
\* videos_downloaded starts at 0.
InsertPlaylist(pls, url, totalVideos, videosSaved) ==
  Append(pls, [url |-> url, total |-> totalVideos, saved |-> videosSaved,
               downloaded |-> 0])

UpdateTotalOnly(pls, id, totalVideos, videosSaved, videosDownloaded) ==
  [pls EXCEPT ![id] = [@ EXCEPT !.total = totalVideos]]

CountsAllSaved(pls, id, totalVideos, videosSaved, videosDownloaded) ==
  [pls EXCEPT ![id] = [@ EXCEPT !.total = totalVideos, !.saved = videosSaved,
                                !.downloaded = videosSaved]]

\* db.go UpdatePlaylistCounts.
UpdatePlaylistCounts(pls, id, totalVideos, videosSaved, videosDownloaded) ==
  [pls EXCEPT ![id] = [@ EXCEPT !.total = totalVideos, !.saved = videosSaved,
                                !.downloaded = videosDownloaded]]

\* cli.go:324  UPDATE playlist_videos SET playlist_id = ? WHERE video_id = ?
\* AND playlist_id = '': every row of that video id that has no playlist.
AttachVideo(rows, pid, vid) ==
  [i \in DOMAIN rows |->
     IF rows[i].vid = vid /\ rows[i].pid = 0
     THEN [rows[i] EXCEPT !.pid = pid] ELSE rows[i]]

\* ------------------------------------------------- ExtractPlaylistToDB loops

\* cli.go:288-298, the loop of the existing-playlist path.  f[i] is what the
\* store does at video i: "ok", "existsErr" (VideoExistsInPlaylist fails:
\* continue) or "insertErr" (InsertPlaylistVideo fails: not counted).
RECURSIVE AddNewVideos(_, _, _, _, _, _, _)
AddNewVideos(rows, pid, snap, i, f, added, nf) ==
  IF i > Len(snap) THEN [rows |-> rows, added |-> added, nf |-> nf]
  ELSE IF f[i] = "existsErr"
    THEN AddNewVideos(rows, pid, snap, i + 1, f, added, nf + 1)
  ELSE IF VideoExistsInPlaylist(rows, pid, snap[i])
    THEN AddNewVideos(rows, pid, snap, i + 1, f, added, nf)
  ELSE IF f[i] = "insertErr"
    THEN AddNewVideos(rows, pid, snap, i + 1, f, added, nf + 1)
  ELSE AddNewVideos(InsertPlaylistVideo(rows, pid, snap[i], i), pid, snap,
                    i + 1, f, added + 1, nf)

\* cli.go:310-315, the first loop of the new-playlist path: every snapshot
\* video is inserted with playlist_id ''; g[i] says the insert fails.
RECURSIVE InsertAll(_, _, _, _, _, _)
InsertAll(rows, snap, i, g, saved, nf) ==
  IF i > Len(snap) THEN [rows |-> rows, saved |-> saved, nf |-> nf]
  ELSE IF g[i] THEN InsertAll(rows, snap, i + 1, g, saved, nf + 1)
  ELSE InsertAll(InsertPlaylistVideo(rows, 0, snap[i], i), snap, i + 1, g,
                 saved + 1, nf)

\* cli.go:323-325, the second loop of the new-playlist path; h[i] says the
\* UPDATE of video i fails (its error is dropped).
RECURSIVE AttachAll(_, _, _, _, _, _)
AttachAll(rows, pid, snap, i, h, nf) ==
  IF i > Len(snap) THEN [rows |-> rows, nf |-> nf]
  ELSE IF h[i] THEN AttachAll(rows, pid, snap, i + 1, h, nf + 1)
  ELSE AttachAll(AttachVideo(rows, pid, snap[i]), pid, snap, i + 1, h, nf)

\* Processes ExtractPlaylist starts: the channel-id probe of a channel URL
\* (ytdlp.go:138-140) and the flat-playlist listing (ytdlp.go:149-151).
ExtractPlaylistProcs(url) == IF IsChannelURL(Text(url)) THEN 2 ELSE 1

\* ------------------------------------------------------ ExtractPlaylistToDB

SyncDone(rec) ==
  /\ lastSync' = rec
  /\ syncRuns' = syncRuns + 1
  /\ UNCHANGED <<mode, runVars, auxVars>>

Repeats(url, snap) ==
  /\ lastSync.path # "none"
  /\ lastSync.clean
  /\ lastSync.url = url
  /\ lastSync.snap = snap

NeverChecked(inst) == TRUE

\* ytdlp.go IsInstalled: exec.LookPath("yt-dlp") finds the tool; inst is
\* whether the tool is on the PATH.
IsInstalled(inst) == inst

\* cli.go:255-257: the tool is not installed.
SyncNotInstalled(url, inst) ==
  /\ syncRuns < MaxSyncRuns
  /\ ~IsInstalled(inst)
  /\ SyncDone([NoSync EXCEPT !.url = url, !.outcome = "notInstalled",
                             !.installed = inst])
  /\ UNCHANGED <<playlists, videos, faults>>

\* cli.go:259-262: ExtractPlaylist returns an error (as it must whenever it
\* is reached with the tool missing).
SyncExtractFails(url, inst) ==
  /\ syncRuns < MaxSyncRuns
  /\ IsInstalled(inst)
  /\ SyncDone([NoSync EXCEPT !.url = url, !.outcome = "extractErr",
                             !.installed = inst,
                             !.procs = IF inst THEN ExtractPlaylistProcs(url)
                                       ELSE 0])
  /\ UNCHANGED <<playlists, videos, faults>>

NeverEmpty(snap) == FALSE

\* cli.go:264: len(playlistInfo.Videos) == 0.
HasNoVideos(snap) == Len(snap) = 0

\* cli.go:264-266: the snapshot has no videos.
SyncNoVideos(url, snap) ==
  /\ syncRuns < MaxSyncRuns
  /\ IsInstalled(TRUE)
  /\ HasNoVideos(snap)
  /\ SyncDone([NoSync EXCEPT !.url = url, !.outcome = "noVideos",
                             !.snap = snap,
                             !.procs = ExtractPlaylistProcs(url)])
  /\ UNCHANGED <<playlists, videos, faults>>

\* cli.go:278-307: the lookup by URL succeeds and finds a record.  cErr says
\* UpdatePlaylistCounts fails (its error is dropped).
SyncExisting(url, snap, f, cErr) ==
  LET pid == GetPlaylistByURL(playlists, url)
      r == AddNewVideos(videos, pid, snap, 1, f, 0, 0)
      nf == r.nf + (IF cErr THEN 1 ELSE 0)
      currentSaved == playlists[pid].saved + r.added
  IN /\ syncRuns < MaxSyncRuns
     /\ IsInstalled(TRUE)
     /\ ~HasNoVideos(snap)
     /\ pid # 0
     /\ faults + nf <= MaxFaults
     /\ videos' = r.rows
     /\ playlists' = IF cErr THEN playlists
                     ELSE UpdatePlaylistCounts(playlists, pid, Len(snap),
                            currentSaved, playlists[pid].downloaded)
     /\ faults' = faults + nf
     /\ SyncDone([url |-> url, outcome |-> "ok", path |-> "existing",
                  snap |-> snap, pid |-> pid, inserted |-> r.added,
                  savedBefore |-> playlists[pid].saved, clean |-> nf = 0,
                  repeats |-> Repeats(url, snap), installed |-> TRUE,
                  procs |-> ExtractPlaylistProcs(url)])

\* cli.go:278-282 and 308-334: the lookup by URL finds no record, or fails
\* (lookupErr): err # nil takes the else branch either way.  pErr says
\* InsertPlaylist fails: the function returns and the rows inserted with
\* playlist_id '' stay.
SyncNew(url, snap, lookupErr, g, pErr, h) ==
  LET r1 == InsertAll(videos, snap, 1, g, 0, 0)
      pls == InsertPlaylist(playlists, url, Len(snap), r1.saved)
      pid == Len(pls)
      r2 == AttachAll(r1.rows, pid, snap, 1, h, 0)
      nf == (IF lookupErr THEN 1 ELSE 0) + r1.nf
            + (IF pErr THEN 1 ELSE r2.nf)
  IN /\ syncRuns < MaxSyncRuns
     /\ IsInstalled(TRUE)
     /\ ~HasNoVideos(snap)
     /\ lookupErr \/ GetPlaylistByURL(playlists, url) = 0
     /\ faults + nf <= MaxFaults
     /\ videos' = IF pErr THEN r1.rows ELSE r2.rows
     /\ playlists' = IF pErr THEN playlists ELSE pls
     /\ faults' = faults + nf
     /\ SyncDone([url |-> url,
                  outcome |-> IF pErr THEN "insertPlaylistErr" ELSE "ok",
                  path |-> "new", snap |-> snap,
                  pid |-> IF pErr THEN 0 ELSE pid, inserted |-> r1.saved,
                  savedBefore |-> 0, clean |-> nf = 0,
                  repeats |-> Repeats(url, snap), installed |-> TRUE,
                  procs |-> ExtractPlaylistProcs(url)])

\* cli.go:254-337, one call: whether the tool is installed, what
\* ExtractPlaylist returns (when the tool is missing its processes cannot
\* produce a listing), and which store calls fail.
ExtractPlaylistToDB(url) ==
  \/ \E inst \in BOOLEAN : SyncNotInstalled(url, inst)
  \/ \E inst \in BOOLEAN : SyncExtractFails(url, inst)
  \/ \E snap \in Snapshots : SyncNoVideos(url, snap)
  \/ \E snap \in Snapshots :
       \E f \in [DOMAIN snap -> {"ok", "existsErr", "insertErr"}] :
         \E cErr \in BOOLEAN : SyncExisting(url, snap, f, cErr)
  \/ \E snap \in Snapshots :
       \E g \in [DOMAIN snap -> BOOLEAN], h \in [DOMAIN snap -> BOOLEAN] :
         \E lookupErr \in BOOLEAN, pErr \in BOOLEAN :
           SyncNew(url, snap, lookupErr, g, pErr, h)

SyncNext == \E url \in PlaylistUrls : ExtractPlaylistToDB(url)

\* cli.go:254-337, calls on longer listings in which every store call
\* succeeds.
ExtractLongPlaylist(url, snap) ==
  \/ SyncExisting(url, snap, [i \in DOMAIN snap |-> "ok"], FALSE)
  \/ SyncNew(url, snap, FALSE, [i \in DOMAIN snap |-> FALSE], FALSE,
             [i \in DOMAIN snap |-> FALSE])

LongNext ==
  \E url \in PlaylistUrls, snap \in LongSnapshots :
    ExtractLongPlaylist(url, snap)

\* ------------------------------------------------------- the downloads table

InsertDownloadDone(dls, url, title) ==
  Append(dls, [url |-> url, title |-> title, channel |-> "",
               channelURL |-> "", status |-> "completed", error |-> "",
               filePath |-> ""])

\* db.go:160-176 InsertDownloadWithPlaylist: a new row, status pending, no
\* channel, no error, no file path.
InsertDownload(dls, url, title) ==
  Append(dls, [url |-> url, title |-> title, channel |-> "",
               channelURL |-> "", status |-> "pending", error |-> "",
               filePath |-> ""])

\* db.go:178-192 UpdateDownloadChannel / UpdateDownloadChannelURL.
UpdateDownloadChannel(dls, id, channel) ==
  [dls EXCEPT ![id] = [@ EXCEPT !.channel = channel]]

UpdateDownloadChannelURL(dls, id, channelURL) ==
  [dls EXCEPT ![id] = [@ EXCEPT !.channelURL = channelURL]]

UpdateEveryDownload(dls, id, status, filePath, errorMsg) ==
  [i \in DOMAIN dls |->
     [dls[i] EXCEPT !.status = status, !.filePath = filePath,
                    !.error = errorMsg]]

\* db.go:227-233 UpdateDownloadStatus: UPDATE ... WHERE id = ?.
UpdateDownloadStatus(dls, id, status, filePath, errorMsg) ==
  [dls EXCEPT ![id] = [@ EXCEPT !.status = status, !.filePath = filePath,
                                !.error = errorMsg]]

\* ------------------------------------------------------------- RunHeadless

\* The state of one RunHeadless call.  pc is the position of the calling
\* task, gpc that of the cancellation listener (cli.go:61-66), proc the
\* download process, watcher the task exec.CommandContext starts to kill the
\* process when the context is done.  hb: the caller has synchronised with
\* the listener's cancel() (through the context), so that it sees the
\* listener's write of cancelled.  videoTitle and lastOutput are the
\* handler's two accumulators (cli.go:77-78), rd the two reader tasks: pc is
\* "scan" between lines and the handler's position otherwise, line the line
\* being handled, saw what the handler read of videoTitle == "".  History:
\* titleWrites and emits count the UpdateDownloadTitle calls and the progress
\* emissions, lastEmitted is the latest emission, overlap says that two
\* invocations of the handler have been in progress at once.
NoRun ==
  [url |-> "", installed |-> TRUE, pc |-> "idle", job |-> 0, meta |-> FALSE,
   procs |-> 0, proc |-> "none", sigSent |-> FALSE, sigRun |-> FALSE,
   gpc |-> "off", cancelled |-> FALSE, ctxDone |-> FALSE, watcher |-> "off",
   watchErr |-> FALSE, hb |-> FALSE, err |-> "nil", saw |-> FALSE,
   branch |-> "none", cleaned |-> FALSE, notRemoved |-> {}, calls |-> 0,
   statusOk |-> FALSE, ret |-> "none",
   videoTitle |-> "", lastOutput |-> "", lastEmitted |-> "",
   titleWrites |-> 0, emits |-> 0, overlap |-> FALSE, warned |-> {},
   wr |-> [r \in Readers |-> 0], rdN |-> [r \in Readers |-> 0],
   cur |-> [r \in Readers |-> 0],
   rd |-> [r \in Readers |-> [pc |-> "scan", line |-> NoLine, saw |-> FALSE]]]

RunFrame == UNCHANGED <<mode, syncVars, nLines, auxVars>>

\* The text of the error DownloadWithCallback returns (err.Error()).
ErrText(err) ==
  CASE err = "start" -> "fork/exec yt-dlp: resource temporarily unavailable"
    [] err = "exit" -> "exit status 1"
    [] err = "killed" -> "signal: killed"
    [] err = "ctx" -> "context canceled"
    [] OTHER -> ""

GenericErrorMsg(err) == "download failed"

\* cli.go:139: the error text stored with a failed job is err.Error().
FailedErrorMsg(err) == ErrText(err)

OutputTemplate == "downloads/%(title)s.%(ext)s"

\* cli.go:131, 139, 145: the arguments of the one UpdateDownloadStatus call
\* of each branch.
StatusArgs(branch, err) ==
  CASE branch = "cancelled" ->
         [status |-> "cancelled", filePath |-> "",
          error |-> "Download cancelled by user"]
    [] branch = "failed" ->
         [status |-> "failed", filePath |-> "", error |-> FailedErrorMsg(err)]
    [] OTHER ->
         [status |-> "completed", filePath |-> OutputTemplate, error |-> ""]

\* cli.go:134, 142, 150: what RunHeadless returns on each branch.
ReturnOf(branch) ==
  CASE branch = "cancelled" -> "download cancelled"
    [] branch = "failed" -> "download failed"
    [] OTHER -> "nil"

OnlyOnFailure(branch) == branch = "failed"

\* cli.go:127-138: both error branches call cleanupPartFiles before the
\* status write; the success branch does not.
NeedsCleanup(branch) == branch \in {"cancelled", "failed"}

PartSuffixOnly == {".part"}

\* cli.go:181: the suffixes of partial artifacts.
PartialSuffixes == {".part", ".ytdl", ".temp"}

\* cli.go:175-188: the entries cleanupPartFiles tries to remove: not a
\* directory, name ending in one of the suffixes.
PartialFiles(d) == {e \in d : ~e.isDir /\ e.ext \in PartialSuffixes}

\* cli.go:167-194 cleanupPartFiles: keep are the entries whose os.Remove
\* fails (all of them when os.ReadDir fails).
CleanupPartFiles(d, keep) == d \ (PartialFiles(d) \ keep)

\* cli.go:21-23: the tool is not installed.
RunNotInstalled(url, inst) ==
  /\ run.pc = "idle"
  /\ runCalls < MaxJobs
  /\ ~IsInstalled(inst)
  /\ run' = [NoRun EXCEPT !.url = url, !.installed = inst,
                          !.ret = "notInstalled"]
  /\ runCalls' = runCalls + 1
  /\ UNCHANGED <<downloads, dir, faults>>
  /\ RunFrame

\* cli.go:25-28: ensureDownloadsFolder fails.
RunFolderFails(url, inst) ==
  /\ run.pc = "idle"
  /\ runCalls < MaxJobs
  /\ IsInstalled(inst)
  /\ faults < MaxFaults
  /\ faults' = faults + 1
  /\ run' = [NoRun EXCEPT !.url = url, !.installed = inst,
                          !.ret = "folderErr"]
  /\ runCalls' = runCalls + 1
  /\ UNCHANGED <<downloads, dir>>
  /\ RunFrame

\* cli.go:21-31: the checks pass.
RunBegin(url, inst) ==
  /\ run.pc = "idle"
  /\ runCalls < MaxJobs
  /\ IsInstalled(inst)
  /\ run' = [NoRun EXCEPT !.url = url, !.installed = inst, !.pc = "meta"]
  /\ runCalls' = runCalls + 1
  /\ UNCHANGED <<downloads, dir, faults>>
  /\ RunFrame

\* cli.go:34-38 ExtractVideoMetadata: a yt-dlp process is run for the
\* metadata; ok says it delivered them.
RunMeta(ok) ==
  /\ run.pc = "meta"
  /\ ok => run.installed
  /\ run' = [run EXCEPT !.meta = ok, !.pc = "insert",
                        !.procs = @ + (IF run.installed THEN 1 ELSE 0)]
  /\ UNCHANGED <<downloads, dir, runCalls, faults>>
  /\ RunFrame

\* cli.go:40-43: InsertDownload fails.
RunInsertFails ==
  /\ run.pc = "insert"
  /\ faults < MaxFaults
  /\ faults' = faults + 1
  /\ run' = [run EXCEPT !.pc = "idle", !.ret = "insertErr"]
  /\ UNCHANGED <<downloads, dir, runCalls>>
  /\ RunFrame

AbortOnFailure(failed, next) == IF failed THEN "idle" ELSE next

\* cli.go:45-51: the errors of the two channel writes are dropped, and the
\* call goes on to the next statement whether they failed or not.
AfterChannelWrites(failed, next) == next

\* cli.go:40-51: the job record is inserted, then the channel and channel
\* URL are written when the metadata has them; chErr and cuErr say these
\* writes fail (their errors are dropped).  run.warned keeps which of the
\* secondary writes of the call have failed.
RunInsert(chErr, cuErr) ==
  LET d0 == InsertDownload(downloads, run.url,
                           IF run.meta THEN "T" ELSE "watch")
      id == Len(d0)
      d1 == IF run.meta /\ ~chErr THEN UpdateDownloadChannel(d0, id, "C")
            ELSE d0
      d2 == IF run.meta /\ ~cuErr
            THEN UpdateDownloadChannelURL(d1, id, "https://x/@c") ELSE d1
      nf == (IF chErr THEN 1 ELSE 0) + (IF cuErr THEN 1 ELSE 0)
  IN /\ run.pc = "insert"
     /\ (chErr \/ cuErr) => run.meta
     /\ faults + nf <= MaxFaults
     /\ faults' = faults + nf
     /\ downloads' = d2
     /\ run' = [run EXCEPT
                  !.job = id,
                  !.warned = {w \in {"channel", "channelURL"} :
                                \/ w = "channel" /\ chErr
                                \/ w = "channelURL" /\ cuErr},
                  !.pc = AfterChannelWrites(chErr \/ cuErr, "setup")]
     /\ UNCHANGED <<dir, runCalls>>
     /\ RunFrame

\* cli.go:54-66: the context, signal.Notify, the listener task.
RunSetup ==
  /\ run.pc = "setup"
  /\ run' = [run EXCEPT !.gpc = "recv", !.pc = "launch"]
  /\ UNCHANGED <<downloads, dir, runCalls, faults>>
  /\ RunFrame

\* The user's interrupt arrives (once per call; sigChan holds it).
SignalArrives ==
  /\ run.pc \in {"launch", "wait", "check", "cleanup", "write"}
  /\ ~run.sigSent
  /\ run' = [run EXCEPT !.sigSent = TRUE, !.sigRun = (run.proc = "running")]
  /\ UNCHANGED <<downloads, dir, runCalls, faults>>
  /\ RunFrame

\* cli.go:62: the listener receives the signal.
SigRecv ==
  /\ run.pc # "idle"
  /\ run.gpc = "recv"
  /\ run.sigSent
  /\ run' = [run EXCEPT !.gpc = "flag"]
  /\ UNCHANGED <<downloads, dir, runCalls, faults>>
  /\ RunFrame

\* The listener going to cancel() without having written the flag.
SigFlagSkipped ==
  /\ run.pc # "idle"
  /\ run.gpc = "flag"
  /\ run' = [run EXCEPT !.gpc = "cancel"]
  /\ UNCHANGED <<downloads, dir, runCalls, faults>>
  /\ RunFrame

\* cli.go:64: cancelled = true.
SigFlag ==
  /\ run.pc # "idle"
  /\ run.gpc = "flag"
  /\ run' = [run EXCEPT !.cancelled = TRUE, !.gpc = "cancel"]
  /\ UNCHANGED <<downloads, dir, runCalls, faults>>
  /\ RunFrame

SigNoCancel ==
  /\ run.pc # "idle"
  /\ run.gpc = "cancel"
  /\ run' = [run EXCEPT !.gpc = "done"]
  /\ UNCHANGED <<downloads, dir, runCalls, faults>>
  /\ RunFrame

\* cli.go:65: cancel().
SigCancel ==
  /\ run.pc # "idle"
  /\ run.gpc = "cancel"
  /\ run' = [run EXCEPT !.ctxDone = TRUE, !.gpc = "done"]
  /\ UNCHANGED <<downloads, dir, runCalls, faults>>
  /\ RunFrame

\* ytdlp.go:84-105 in DownloadWithCallback: cmd.Start.  With the context
\* already done Start returns the context's error and starts nothing;
\* otherwise it fails (startErr, always so when the tool is missing) or the
\* process runs and the watcher of exec.CommandContext is armed.
RunLaunch(startErr) ==
  /\ run.pc = "launch"
  /\ ~run.installed => startErr
  /\ run.ctxDone => ~startErr
  /\ run' = IF run.ctxDone
            THEN [run EXCEPT !.err = "ctx", !.hb = TRUE, !.pc = "check"]
            ELSE IF startErr
            THEN [run EXCEPT !.err = "start", !.pc = "check"]
            ELSE [run EXCEPT !.proc = "running", !.watcher = "armed",
                             !.procs = @ + 1, !.pc = "wait"]
  /\ UNCHANGED <<downloads, dir, runCalls, faults>>
  /\ RunFrame

\* The download process ends on its own, with exit code 0 or not, leaving
\* what it wrote in the output directory.
ProcExit(ok, left) ==
  /\ run.pc = "wait"
  /\ run.proc = "running"
  /\ ok => FileMp4 \in left
  /\ run' = [run EXCEPT !.proc = IF ok THEN "exit0" ELSE "exitErr"]
  /\ dir' = dir \cup left
  /\ UNCHANGED <<downloads, runCalls, faults>>
  /\ RunFrame

\* os/exec: the watcher sees ctx.Done() and calls Process.Kill.  A running
\* process is killed (it leaves what it had written); for a process that
\* has ended but is not yet reaped, Kill may succeed or report that the
\* process is done, and only a success is kept as the context's error.
WatcherFire(zerr, left) ==
  /\ run.pc = "wait"
  /\ run.watcher = "armed"
  /\ run.ctxDone
  /\ IF run.proc = "running"
     THEN /\ zerr
          /\ FileMp4 \notin left
          /\ run' = [run EXCEPT !.proc = "killed", !.watcher = "fired",
                                !.watchErr = TRUE]
          /\ dir' = dir \cup left
     ELSE /\ left = {}
          /\ run' = [run EXCEPT !.watcher = "fired", !.watchErr = zerr]
          /\ UNCHANGED dir
  /\ UNCHANGED <<downloads, runCalls, faults>>
  /\ RunFrame

\* ytdlp.go:110 cmd.Wait returns once the process has ended.  late: the
\* watcher, not yet fired, takes ctx.Done() rather than Wait's request to
\* stop, so Wait is ordered after cancel(); the process has been reaped by
\* then and its Kill reports that the process is done.
WaitReturn(late) ==
  LET fired == run.watcher = "fired"
      e == CASE run.proc = "killed" -> "killed"
             [] run.proc = "exitErr" -> "exit"
             [] OTHER -> IF fired /\ run.watchErr THEN "ctx" ELSE "nil"
  IN /\ run.pc = "wait"
     /\ run.proc \in {"exit0", "exitErr", "killed"}
     /\ late => (run.ctxDone /\ ~fired)
     /\ run' = [run EXCEPT !.err = e, !.hb = fired \/ late,
                           !.watcher = "off",
                           !.pc = IF e = "nil" THEN "cleanup" ELSE "check",
                           !.branch = IF e = "nil" THEN "completed"
                                      ELSE "none"]
     /\ UNCHANGED <<downloads, dir, runCalls, faults>>
     /\ RunFrame

\* cli.go:127-128: err # nil, and the read of cancelled.  The listener
\* writes cancelled without synchronisation: the read is ordered after the
\* write only through the context (hb); otherwise, once the write has been
\* made, the read returns either value.
RunCheck(seen) ==
  /\ run.pc = "check"
  /\ seen => run.cancelled
  /\ (run.cancelled /\ run.hb) => seen
  /\ run' = [run EXCEPT !.saw = seen,
                        !.branch = IF seen THEN "cancelled" ELSE "failed",
                        !.pc = "cleanup"]
  /\ UNCHANGED <<downloads, dir, runCalls, faults>>
  /\ RunFrame

\* cli.go:127-145, between the choice of the branch and its status write:
\* cleanupPartFiles on the two error branches (cli.go:130, 138), nothing on
\* the success branch.
RunCleanup(keep) ==
  LET do == NeedsCleanup(run.branch)
  IN /\ run.pc = "cleanup"
     /\ keep \subseteq (IF do THEN PartialFiles(dir) ELSE {})
     /\ keep # {} => faults < MaxFaults
     /\ faults' = faults + (IF keep = {} THEN 0 ELSE 1)
     /\ dir' = IF do THEN CleanupPartFiles(dir, keep) ELSE dir
     /\ run' = [run EXCEPT !.cleaned = do, !.notRemoved = keep,
                           !.pc = "write"]
     /\ UNCHANGED <<downloads, runCalls>>
     /\ RunFrame

\* cli.go:131-134, 139-142, 145-150: the one UpdateDownloadStatus call of
\* the branch (wErr: it fails, which is only warned about) and the return.
RunWriteStatus(wErr) ==
  LET a == StatusArgs(run.branch, run.err)
  IN /\ run.pc = "write"
     /\ wErr => faults < MaxFaults
     /\ faults' = faults + (IF wErr THEN 1 ELSE 0)
     /\ downloads' = IF wErr THEN downloads
                     ELSE UpdateDownloadStatus(downloads, run.job, a.status,
                                               a.filePath, a.error)
     /\ run' = [run EXCEPT !.calls = @ + 1, !.statusOk = ~wErr,
                           !.ret = ReturnOf(run.branch), !.pc = "idle"]
     /\ UNCHANGED <<dir, runCalls>>
     /\ RunFrame

\* --------------------------------------------------------- the line handler

\* db.go:235-241 UpdateDownloadTitle.
UpdateDownloadTitle(dls, id, title) ==
  [dls EXCEPT ![id] = [@ EXCEPT !.title = title]]

\* cli.go:85-88: filepath.Base of the path, less its filepath.Ext.
TitleOfPath(path) == path.stem

\* cli.go:110-114: "Progress: <pct>%", then " | ETA: <eta>" when there is one.
FormatProgress(line) ==
  IF line.eta = "" THEN "Progress: " \o line.pct \o "%"
  ELSE "Progress: " \o line.pct \o "%" \o " | ETA: " \o line.eta

AlwaysDiffers(output, last) == TRUE

\* cli.go:116: output != lastOutput.
Differs(output, last) == output # last

\* The download process writes one more line on stream r (run.wr[r] counts
\* them; the text of a line is drawn when the line is read).
ProcWrite(r) ==
  /\ run.proc = "running"
  /\ nLines < MaxLines
  /\ nLines' = nLines + 1
  /\ run' = [run EXCEPT !.wr[r] = @ + 1]
  /\ UNCHANGED <<downloads, dir, runCalls, faults, mode, syncVars, auxVars>>

NewestLine(read, written) == written

\* ytdlp.go:115 scanner.Scan(): the pipe is first in, first out, so the line
\* delivered after `read` lines is line read + 1 of the stream.
NextLine(read, written) == read + 1

\* ytdlp.go:113-118 readAndCallback: the scanner of reader r delivers the
\* next line of its pipe, which the process has written, and calls the
\* handler (run.cur[r] is the number of that line in its stream).  Lines
\* arrive until cmd.Wait has closed the pipes.
ReadLine(r, line) ==
  /\ run.pc = "wait"
  /\ run.rdN[r] < run.wr[r]
  /\ run.rd[r].pc = "scan"
  /\ run' = [run EXCEPT
               !.rd[r] = [pc |-> "title", line |-> line, saw |-> FALSE],
               !.rdN[r] = @ + 1,
               !.cur[r] = NextLine(run.rdN[r], run.wr[r]),
               !.overlap = @ \/ (\E q \in Readers \ {r} :
                                   run.rd[q].pc # "scan")]
  /\ UNCHANGED <<downloads, dir, runCalls, faults>>
  /\ RunFrame

\* cli.go:83-84: videoTitle == "" and the match of destinationRegex.
TitleCheck(r) ==
  LET empty == run.videoTitle = ""
      line == run.rd[r].line
  IN /\ run.pc # "idle"
     /\ run.rd[r].pc = "title"
     /\ run' = [run EXCEPT
                  !.rd[r].saw = empty,
                  !.rd[r].pc = IF empty /\ line.dest # NoPath THEN "titleW"
                               ELSE "prog"]
     /\ UNCHANGED <<downloads, dir, runCalls, faults>>
     /\ RunFrame

\* cli.go:85-89: videoTitle is set and written to the job record; tErr says
\* UpdateDownloadTitle fails (its error is dropped).
TitleWrite(r, tErr) ==
  LET title == TitleOfPath(run.rd[r].line.dest)
  IN /\ run.pc # "idle"
     /\ run.rd[r].pc = "titleW"
     /\ tErr => faults < MaxFaults
     /\ faults' = faults + (IF tErr THEN 1 ELSE 0)
     /\ downloads' = IF tErr THEN downloads
                     ELSE UpdateDownloadTitle(downloads, run.job, title)
     /\ run' = [run EXCEPT !.videoTitle = title, !.titleWrites = @ + 1,
                           !.warned = IF tErr THEN @ \cup {"title"} ELSE @,
                           !.rd[r].pc = "prog"]
     /\ UNCHANGED <<dir, runCalls>>
     /\ RunFrame

\* cli.go:100-116: a line with "[download]" and "%" in which progressRegex
\* matches is formatted and compared with lastOutput.
ProgCheck(r) ==
  LET line == run.rd[r].line
      emit == /\ line.dl
              /\ line.pct # ""
              /\ Differs(FormatProgress(line), run.lastOutput)
  IN /\ run.pc # "idle"
     /\ run.rd[r].pc = "prog"
     /\ run' = [run EXCEPT
                  !.rd[r] = IF emit THEN [@ EXCEPT !.pc = "emit"]
                            ELSE [pc |-> "scan", line |-> NoLine,
                                  saw |-> FALSE]]
     /\ UNCHANGED <<downloads, dir, runCalls, faults>>
     /\ RunFrame

\* cli.go:117-118: the update is printed and lastOutput set.
ProgEmit(r) ==
  LET output == FormatProgress(run.rd[r].line)
  IN /\ run.pc # "idle"
     /\ run.rd[r].pc = "emit"
     /\ run' = [run EXCEPT
                  !.lastOutput = output, !.lastEmitted = output,
                  !.emits = @ + 1,
                  !.rd[r] = [pc |-> "scan", line |-> NoLine, saw |-> FALSE]]
     /\ UNCHANGED <<downloads, dir, runCalls, faults>>
     /\ RunFrame

\* ytdlp.go:113-118, one step of a reader task.
readAndCallback(r) ==
  \/ \E line \in Lines : ReadLine(r, line)
  \/ TitleCheck(r)
  \/ \E tErr \in BOOLEAN : TitleWrite(r, tErr)
  \/ ProgCheck(r)
  \/ ProgEmit(r)

\* cli.go:20-151, one step of a call.
RunHeadless(url) ==
  \/ \E inst \in BOOLEAN : RunNotInstalled(url, inst)
  \/ \E inst \in BOOLEAN : RunFolderFails(url, inst)
  \/ \E inst \in BOOLEAN : RunBegin(url, inst)

RunStep ==
  \/ \E ok \in BOOLEAN : RunMeta(ok)
  \/ RunInsertFails
  \/ \E chErr \in BOOLEAN, cuErr \in BOOLEAN : RunInsert(chErr, cuErr)
  \/ RunSetup
  \/ \E startErr \in BOOLEAN : RunLaunch(startErr)
  \/ \E late \in BOOLEAN : WaitReturn(late)
  \/ \E seen \in BOOLEAN : RunCheck(seen)
  \/ \E keep \in SUBSET PartialFiles(dir) : RunCleanup(keep)
  \/ \E wErr \in BOOLEAN : RunWriteStatus(wErr)

Listener == SigRecv \/ SigFlag \/ SigCancel

Watcher == \E zerr \in BOOLEAN, left \in ArtifactSets : WatcherFire(zerr, left)

Process == \E ok \in BOOLEAN, left \in ArtifactSets : ProcExit(ok, left)

RunNext ==
  \/ \E url \in VideoUrls : RunHeadless(url)
  \/ RunStep
  \/ Listener
  \/ Watcher
  \/ Process
  \/ SignalArrives

\* A call whose download process writes output: the tool is installed and
\* delivers the metadata, the process starts and ends on its own, nobody
\* interrupts, and the store calls other than the title write succeed.
LineNext ==
  \/ \E url \in VideoUrls : RunBegin(url, TRUE)
  \/ RunMeta(TRUE)
  \/ RunInsert(FALSE, FALSE)
  \/ RunSetup
  \/ RunLaunch(FALSE)
  \/ \E r \in Readers : ProcWrite(r)
  \/ ProcExit(TRUE, {FileMp4})
  \/ ProcExit(FALSE, {})
  \/ WaitReturn(FALSE)
  \/ RunCheck(FALSE)
  \/ RunCleanup({})
  \/ RunWriteStatus(FALSE)
  \/ \E r \in Readers : readAndCallback(r)

\* C32: after a call that returned without error, the videos_saved of the
\* call's playlist is the number of rows that carry the playlist's id,
\* whichever tolerated store writes failed.
C32_SavedCountsRows ==
  (lastSync.outcome = "ok" /\ lastSync.pid # 0)
    => playlists[lastSync.pid].saved
         = Cardinality({r \in DOMAIN videos : videos[r].pid = lastSync.pid})

\* C33: whenever a call has returned, with or without error, every
\* playlist_videos row carries the id of a playlists row that exists.
C33_RowsBelongToPlaylists ==
  syncRuns > 0 => \A r \in DOMAIN videos : videos[r].pid \in DOMAIN playlists

\* C34: a job inserted as pending whose process has ended eventually has a
\* terminal status in the store, also when the status write fails.
C34_PendingEndsTerminal ==
  \A j \in 1..MaxJobs :
    (/\ run.job = j
     /\ run.proc \in {"exit0", "exitErr", "killed"}
     /\ downloads[j].status = "pending")
      ~> (j \in DOMAIN downloads /\ downloads[j].status # "pending")

\* C35: the listener writes the cancelled flag before it activates the
\* token, so the token is never active with the flag unset, and a call whose
\* wait returned because the cancellation killed the process reads the flag
\* as true.
C35_FlagSetBeforeCancel ==
  /\ run.ctxDone => run.cancelled
  /\ (run.job # 0 /\ run.proc = "killed"
        /\ run.pc \in {"cleanup", "write", "idle"}) => run.saw

\* The cancellation killed the running process, the wait has returned and
\* the flag has just been read as true.
C35_Witness ==
  /\ run.sigRun
  /\ run.proc = "killed"
  /\ run.err = "killed"
  /\ run.pc = "cleanup"
  /\ run.cancelled
  /\ run.saw

\* C36: with no store call failing, after any sequence of calls no two
\* entries of one playlist have the same ordinal position.
C36_PositionsUnique ==
  faults = 0 =>
    \A i, j \in DOMAIN videos :
      (i # j /\ videos[i].pid # 0 /\ videos[i].pid = videos[j].pid)
        => videos[i].idx # videos[j].idx

\* C31: when DownloadWithCallback has returned, both reader tasks are done
\* with the handler: no invocation is in progress, so none writes the title
\* after the return.
C31_ReadersDoneAtReturn ==
  (run.job # 0 /\ run.pc \in {"check", "cleanup", "write", "idle"})
    => \A r \in Readers : run.rd[r].pc = "scan"

\* The same call with any of the three secondary writes (title, channel,
\* channel URL) failing, and the process writing on its standard output only.
WarnNext ==
  \/ \E url \in VideoUrls : RunBegin(url, TRUE)
  \/ RunMeta(TRUE)
  \/ \E chErr, cuErr \in BOOLEAN : RunInsert(chErr, cuErr)
  \/ RunSetup
  \/ RunLaunch(FALSE)
  \/ ProcWrite("stdout")
  \/ ProcExit(TRUE, {FileMp4})
  \/ ProcExit(FALSE, {})
  \/ WaitReturn(FALSE)
  \/ RunCheck(FALSE)
  \/ RunCleanup({})
  \/ RunWriteStatus(FALSE)
  \/ readAndCallback("stdout")

\* C29: a failed secondary write (title, channel, channel URL) does not
\* abort the job: the call still writes its terminal status, and the status
\* is the one the outcome of the download process alone decides.
C29_SecondaryFailureTolerated ==
  (run.warned # {} /\ run.pc = "idle") =>
    /\ run.calls = 1
    /\ run.statusOk
    /\ downloads[run.job].status =
         IF run.err = "nil" THEN "completed" ELSE "failed"

C29_Witness ==
  /\ run.warned = {"title"}
  /\ run.pc = "idle"
  /\ run.calls = 1
  /\ downloads[run.job].status = "completed"

\* C28: when the store write of a job's terminal status fails, RunHeadless
\* returns an error.
C28_StatusFailureReturned ==
  (run.pc = "idle" /\ run.calls = 1 /\ ~run.statusOk) => run.ret # "nil"

\* C27: no playlist_videos row is changed after it has been inserted: every
\* row in the table keeps every field, playlist_id included.
C27_RowsNeverChange ==
  [][\A i \in DOMAIN videos : i \in DOMAIN videos' /\ videos'[i] = videos[i]]_vars

\* ---------------------------------------------------------- CleanChannelURL
\* The arguments: every text of up to MaxParts pieces, a piece being a
\* channel URL, one of the six suffixes, a query string, a slash or "NA".
UrlParts ==
  {Text("https://x/@name"), Text("?feature=a"), Text("/"), NA}
    \cup {suffixes[i] : i \in DOMAIN suffixes}

RECURSIVE Join(_)
Join(parts) == IF parts = <<>> THEN EmptyText ELSE Head(parts) \o Join(Tail(parts))

CleanInputs ==
  {Join(parts) : parts \in UNION {[1..n -> UrlParts] : n \in 0..MaxParts}}

NoCall == [pc |-> "none", arg |-> EmptyText, once |-> EmptyText, twice |-> EmptyText]

\* The call CleanChannelURL(arg).
CleanOnce ==
  /\ cleanCall.pc = "arg"
  /\ cleanCall' = [cleanCall EXCEPT !.pc = "once",
                                    !.once = CleanChannelURL(cleanCall.arg)]
  /\ UNCHANGED <<mode, faults, syncVars, runVars, listing, tui>>

\* The call CleanChannelURL on the result of the first.
CleanTwice ==
  /\ cleanCall.pc = "once"
  /\ cleanCall' = [cleanCall EXCEPT !.pc = "twice",
                                    !.twice = CleanChannelURL(cleanCall.once)]
  /\ UNCHANGED <<mode, faults, syncVars, runVars, listing, tui>>

CleanNext == CleanOnce \/ CleanTwice

\* C22: CleanChannelURL("https://x/@name/videos?feature=a") is
\* "https://x/@name": a known trailing segment followed by a query string
\* loses both.
C22_SegmentAndQueryRemoved ==
  (cleanCall.pc \in {"once", "twice"}
     /\ cleanCall.arg = Text("https://x/@name/videos") \o Text("?feature=a"))
    => cleanCall.once = Text("https://x/@name")

\* C23: for an argument that is neither empty nor "NA" the result is not
\* empty, and it is the argument itself when the cleaning steps leave
\* nothing.
C23_NeverEmptied ==
  (cleanCall.pc \in {"once", "twice"} /\ cleanCall.arg \notin {EmptyText, NA})
    => /\ cleanCall.once # EmptyText
       /\ TrimSuffix(CutQuery(TrimFirstSuffix(cleanCall.arg, suffixes)), Text("/"))
            = EmptyText => cleanCall.once = cleanCall.arg

C23_Witness ==
  /\ cleanCall.pc = "once"
  /\ cleanCall.arg = Text("/videos")
  /\ cleanCall.once = Text("/videos")

\* C24: CleanChannelURL is idempotent: cleaning a cleaned URL changes
\* nothing.
C24_Idempotent ==
  cleanCall.pc = "twice" => cleanCall.twice = cleanCall.once

\* ---------------------------------------------------------- ExtractPlaylist
\* What yt-dlp prints.  A field it has no value for is "NA"; the per-video
\* fields may also be empty.  The playlist-level channel fields are per line,
\* because the print template takes them from the video when the playlist
\* has none (ytdlp.go:145).

Missing(s) == s = EmptyText \/ s = NA

ListingLines ==
  [ptitle : {Text("T")},
   pch : {NA, Text("P")},
   pcurl : {NA, Text("https://x/@name/videos")},
   ch : {EmptyText, NA, Text("V")},
   churl : {EmptyText, NA, Text("https://x/channel/UC2")}]

ListingOutputs == UNION {[1..n -> ListingLines] : n \in 0..MaxVideos}

\* ytdlp.go:295-315: the channel-id probe, given whether the process
\* succeeded and what it printed.
extractChannelURL(ok, channelID) ==
  IF ~ok \/ Missing(channelID) THEN EmptyText
  ELSE Text("https://www.youtube.com/channel/") \o channelID

\* ytdlp.go:262-291.  strings.Split(s, sep)[1] is the text after the first
\* sep, up to the next one.
NameAfter(urlStr, mark) == Split(Split(urlStr, mark)[2], Text("/"))[1]

extractChannelNameFromURL(urlStr) ==
  Let(urlStr, LAMBDA u :
    IF Contains(u, Text("/@")) THEN Text("@") \o NameAfter(u, Text("/@"))
    ELSE IF Contains(u, Text("/channel/")) THEN NameAfter(u, Text("/channel/"))
    ELSE IF Contains(u, Text("/c/")) THEN NameAfter(u, Text("/c/"))
    ELSE IF Contains(u, Text("/user/")) THEN NameAfter(u, Text("/user/"))
    ELSE Text("Unknown Channel"))

\* db.go:194-224, for a URL whose path ends in a name without extension:
\* the last element of the path.
extractTitleFromURL(urlStr) ==
  Let(Split(CutQuery(urlStr), Text("/")), LAMBDA elems : elems[Len(elems)])

\* ytdlp.go:185-192: the channel URL of a video that has none.
PlaylistLevelOnly(canonicalChannelURL, playlistChannelURL) == playlistChannelURL
FallbackChannelURL(canonicalChannelURL, playlistChannelURL) ==
  IF canonicalChannelURL # EmptyText
    THEN canonicalChannelURL
    ELSE playlistChannelURL

\* ytdlp.go:197-204: the channel name of a video whose name is still missing.
AsListed(videoChannel, videoChannelURL) == videoChannel
EnsureChannel(videoChannel, videoChannelURL) ==
  IF Missing(videoChannel)
    THEN IF ~Missing(videoChannelURL)
           THEN extractChannelNameFromURL(videoChannelURL)
           ELSE Text("Unknown Channel")
    ELSE videoChannel

\* ytdlp.go:178-219: the video of one printed line.  ID, Title and URL are
\* copied from the line and are left out.
VideoOfLine(parts, canonicalChannelURL) ==
  Let(IF Missing(parts.ch) THEN parts.pch ELSE parts.ch,
      LAMBDA videoChannel :
  Let(CleanChannelURL(
        IF Missing(parts.churl)
          THEN FallbackChannelURL(canonicalChannelURL, parts.pcurl)
          ELSE parts.churl),
      LAMBDA videoChannelURL :
    [Channel |-> EnsureChannel(videoChannel, videoChannelURL),
     ChannelURL |-> IF Missing(videoChannelURL) THEN EmptyText
                    ELSE videoChannelURL]))

NoInfo ==
  [Title |-> EmptyText, Channel |-> EmptyText, ChannelURL |-> EmptyText,
   Videos |-> <<>>]

\* ytdlp.go:161-220: the loop over the printed lines.
RECURSIVE ParseLines(_, _, _)
ParseLines(info, out, canonicalChannelURL) ==
  IF out = <<>> THEN info
  ELSE
    Let(Head(out), LAMBDA parts :
    Let(IF info.Title = EmptyText
          THEN [info EXCEPT !.Title = parts.ptitle,
                            !.Channel = parts.pch,
                            !.ChannelURL = CleanChannelURL(parts.pcurl)]
          ELSE info,
        LAMBDA first :
    Let([first EXCEPT
           !.Videos = Append(@, VideoOfLine(parts, canonicalChannelURL))],
        LAMBDA next : ParseLines(next, Tail(out), canonicalChannelURL))))

\* ytdlp.go:246-256: the first video that has a channel URL, 0 if none.
FirstWithChannelURL(vs) ==
  Let({i \in DOMAIN vs : ~Missing(vs[i].ChannelURL)},
      LAMBDA has : IF has = {} THEN 0 ELSE Min(has))

\* ytdlp.go:135-259, given the probe's result and the listing's output.
ExtractPlaylist(playlistURL, canonicalChannelURL, out) ==
  Let(ParseLines(NoInfo, out, canonicalChannelURL), LAMBDA parsed :
  Let(IF parsed.Title = EmptyText /\ Len(parsed.Videos) > 0
        THEN [parsed EXCEPT !.Title = extractTitleFromURL(playlistURL)]
        ELSE parsed,
      LAMBDA titled :
  Let(IF canonicalChannelURL # EmptyText
        THEN [titled EXCEPT !.ChannelURL = canonicalChannelURL]
      ELSE IF Missing(titled.ChannelURL) /\ IsChannelURL(playlistURL)
        THEN [titled EXCEPT !.ChannelURL = CleanChannelURL(playlistURL)]
      ELSE titled,
      LAMBDA withURL :
  Let(IF Missing(withURL.Channel) /\ withURL.ChannelURL # EmptyText
        THEN [withURL EXCEPT
                !.Channel = extractChannelNameFromURL(withURL.ChannelURL)]
        ELSE withURL,
      LAMBDA named :
  Let(FirstWithChannelURL(named.Videos), LAMBDA k :
    IF Missing(named.ChannelURL) /\ Len(named.Videos) > 0 /\ k # 0
      THEN [named EXCEPT
              !.ChannelURL = named.Videos[k].ChannelURL,
              !.Channel = IF Missing(named.Channel)
                            THEN named.Videos[k].Channel
                            ELSE named.Channel]
      ELSE named)))))

NoListing ==
  [pc |-> "none", url |-> EmptyText, out |-> <<>>, canonical |-> EmptyText,
   info |-> NoInfo]

\* ytdlp.go:138-140: a channel URL is probed for its channel id first.
ListingProbe(ok, channelID) ==
  /\ listing.pc = "start"
  /\ IsChannelURL(listing.url)
  /\ listing' = [listing EXCEPT !.pc = "probed",
                                !.canonical = extractChannelURL(ok, channelID)]
  /\ UNCHANGED <<mode, faults, syncVars, runVars, cleanCall, tui>>

\* ytdlp.go:149-154: the listing process fails and there is no snapshot.
ListingFails ==
  /\ \/ listing.pc = "start" /\ ~IsChannelURL(listing.url)
     \/ listing.pc = "probed"
  /\ listing' = [listing EXCEPT !.pc = "failed"]
  /\ UNCHANGED <<mode, faults, syncVars, runVars, cleanCall, tui>>

\* ytdlp.go:156-258: the snapshot of the listing's output.
ListingParsed ==
  /\ \/ listing.pc = "start" /\ ~IsChannelURL(listing.url)
     \/ listing.pc = "probed"
  /\ listing' =
       [listing EXCEPT
          !.pc = "done",
          !.info = ExtractPlaylist(listing.url, listing.canonical, listing.out)]
  /\ UNCHANGED <<mode, faults, syncVars, runVars, cleanCall, tui>>

ListingNext ==
  \/ \E channelID \in {EmptyText, NA, Text("UC1")} : ListingProbe(TRUE, channelID)
  \/ ListingProbe(FALSE, EmptyText)
  \/ ListingFails
  \/ ListingParsed

C26_CanonicalPreferred ==
  listing.pc = "done" =>
    /\ \A i \in DOMAIN listing.info.Videos :
         Missing(listing.out[i].churl) =>
           listing.info.Videos[i].ChannelURL =
             IF listing.canonical # EmptyText
               THEN listing.canonical
               ELSE CleanChannelURL(listing.out[i].pcurl)
    /\ listing.canonical # EmptyText =>
         listing.info.ChannelURL = listing.canonical

C26_Witness ==
  /\ listing.pc = "done"
  /\ listing.canonical = Text("https://www.youtube.com/channel/") \o Text("UC1")
  /\ Len(listing.info.Videos) = 2
  /\ Missing(listing.out[1].churl)
  /\ ~Missing(listing.out[1].pcurl)
  /\ listing.info.Videos[1].ChannelURL = listing.canonical
  /\ listing.info.ChannelURL = listing.canonical

\* ---------------------------------------------------------------- the TUI
\* tui.go: the Bubble Tea model (textInput's value, message, messageType,
\* processing), the commands the runtime is executing (running: the URL of
\* each), and the messages they have returned that Update has not yet been
\* given (inbox).  started counts the processURL commands returned so far;
\* ignored says an Enter was pressed since the last submission while
\* processing was set; quit says Update has returned tea.Quit.
NoTui ==
  [input |-> "", message |-> "", messageType |-> "", processing |-> FALSE,
   running |-> <<>>, inbox |-> <<>>, started |-> 0, ignored |-> FALSE,
   quit |-> FALSE]

IgnoreProcessing(url, processing) == url # ""

\* tui.go:110.
CanSubmit(url, processing) == url # "" /\ ~processing

\* tui.go:50-80: the message of a command, by the kind of URL and by whether
\* ExtractPlaylistToDB or RunHeadless returned an error.
ProcessedMsg(url, success) ==
  [success |-> success,
   message |->
     IF IsPlaylistURL(Text(url))
       THEN IF success THEN "Playlist/Channel added successfully!"
            ELSE "Failed to add playlist/channel"
       ELSE IF success THEN "Video downloaded successfully!"
            ELSE "Download failed"]

\* tui.go:130-131: any other key goes to the text input, which the user
\* edits to value.
TuiType(value) ==
  /\ ~tui.quit
  /\ tui.input # value
  /\ tui' = [tui EXCEPT !.input = value]
  /\ UNCHANGED <<mode, faults, syncVars, runVars, cleanCall, listing>>

\* tui.go:108-116: Enter.
TuiEnter ==
  /\ ~tui.quit
  /\ tui.started < MaxSubmits
  /\ tui' = IF CanSubmit(tui.input, tui.processing)
              THEN [tui EXCEPT !.processing = TRUE,
                               !.message = "Processing...",
                               !.messageType = "info",
                               !.running = Append(@, tui.input),
                               !.started = @ + 1,
                               !.ignored = FALSE]
              ELSE [tui EXCEPT !.ignored = @ \/ tui.processing]
  /\ UNCHANGED <<mode, faults, syncVars, runVars, cleanCall, listing>>

\* tui.go:51-79: a command's function returns its message.
TuiCmdReturns(k, success) ==
  /\ ~tui.quit
  /\ k \in DOMAIN tui.running
  /\ tui' = [tui EXCEPT
               !.running = SubSeq(@, 1, k - 1) \o SubSeq(@, k + 1, Len(@)),
               !.inbox = Append(@, ProcessedMsg(tui.running[k], success))]
  /\ UNCHANGED <<mode, faults, syncVars, runVars, cleanCall, listing>>

\* tui.go:118-127: Update is given a urlProcessedMsg.
TuiProcessed ==
  /\ ~tui.quit
  /\ tui.inbox # <<>>
  /\ LET msg == Head(tui.inbox)
     IN tui' = [tui EXCEPT
                  !.inbox = Tail(@),
                  !.processing = FALSE,
                  !.message = msg.message,
                  !.messageType = IF msg.success THEN "success" ELSE "error",
                  !.input = IF msg.success THEN "" ELSE @]
  /\ UNCHANGED <<mode, faults, syncVars, runVars, cleanCall, listing>>

\* tui.go:105-106: Ctrl+C or Esc ends the program.
TuiQuit ==
  /\ ~tui.quit
  /\ tui' = [tui EXCEPT !.quit = TRUE]
  /\ UNCHANGED <<mode, faults, syncVars, runVars, cleanCall, listing>>

TuiNext ==
  \/ \E value \in PlaylistUrls \cup VideoUrls \cup {""} : TuiType(value)
  \/ TuiEnter
  \/ \E k \in 1..MaxSubmits, success \in BOOLEAN : TuiCmdReturns(k, success)
  \/ TuiProcessed
  \/ TuiQuit

\* C30: at most one job is in flight in the front-end: a command is running
\* or its message is undelivered exactly while processing is set, an Enter
\* pressed while it is set starts no command, and it is cleared only when
\* Update is given the urlProcessedMsg of the command that set it.
C30_OneJobInFlight ==
  /\ [](/\ Len(tui.running) + Len(tui.inbox) <= 1
        /\ tui.processing <=> Len(tui.running) + Len(tui.inbox) = 1)
  /\ [][/\ tui.processing => tui'.started = tui.started
        /\ (tui.processing /\ ~tui'.processing)
             => /\ tui.inbox # <<>>
                /\ tui'.inbox = Tail(tui.inbox)]_vars

\* Enter was pressed while a job was in flight, and the job then ended.
C30_Witness ==
  /\ tui.ignored
  /\ tui.started = 1
  /\ tui.running = <<>>
  /\ tui.inbox = <<>>
  /\ ~tui.processing
  /\ tui.messageType = "error"

\* ------------------------------------------------------------ specifications

Init ==
  /\ mode \in {"sync", "long", "run", "lines", "warn", "clean", "listing",
              "tui"}
  /\ faults = 0
  /\ playlists = <<>>
  /\ videos = <<>>
  /\ syncRuns = 0
  /\ lastSync = NoSync
  /\ downloads = <<>>
  /\ dir = {}
  /\ runCalls = 0
  /\ run = NoRun
  /\ nLines = 0
  /\ cleanCall \in IF mode = "clean"
                    THEN {[NoCall EXCEPT !.pc = "arg", !.arg = u] : u \in CleanInputs}
                    ELSE {NoCall}
  /\ listing \in IF mode = "listing"
                  THEN {[NoListing EXCEPT !.pc = "start", !.url = Text(url),
                                          !.out = out] :
                          url \in PlaylistUrls, out \in ListingOutputs}
                  ELSE {NoListing}
  /\ tui = NoTui

\* One invocation runs one entry point (main.go): -playlist reconciles, a
\* URL downloads.  A behaviour is a sequence of invocations of one entry
\* point; the two use different tables.
EntryNext ==
  \/ mode = "sync" /\ SyncNext
  \/ mode = "run" /\ RunNext

Next ==
  \/ EntryNext
  \/ mode = "long" /\ LongNext
  \/ mode = "lines" /\ LineNext
  \/ mode = "warn" /\ WarnNext
  \/ mode = "clean" /\ CleanNext
  \/ mode = "listing" /\ ListingNext
  \/ mode = "tui" /\ TuiNext

Spec == Init /\ [][Next]_vars

EntryInit == Init /\ mode \in {"sync", "run"}

EntrySpec == EntryInit /\ [][EntryNext]_vars

SyncInit == Init /\ mode = "sync"

SyncSpec == SyncInit /\ [][SyncNext]_vars

LongInit == Init /\ mode = "long"

LongSpec == LongInit /\ [][LongNext]_vars

LineInit == Init /\ mode = "lines"

LineSpec == LineInit /\ [][LineNext]_vars

WarnInit == Init /\ mode = "warn"

WarnSpec == WarnInit /\ [][WarnNext]_vars

CleanInit == Init /\ mode = "clean"

CleanSpec == CleanInit /\ [][CleanNext]_vars

ListingInit == Init /\ mode = "listing"

ListingSpec == ListingInit /\ [][ListingNext]_vars

TuiInit == Init /\ mode = "tui"

TuiSpec == TuiInit /\ [][TuiNext]_vars

RunInit == Init /\ mode = "run"

RunSpec == RunInit /\ [][RunNext]_vars

\* The tasks of a call are scheduled and a store or filesystem call returns;
\* nothing obliges the process to end on its own, the user to interrupt or
\* another call to be made.
RunFairness ==
  /\ WF_vars(RunStep)
  /\ WF_vars(Listener)
  /\ WF_vars(Watcher)

RunFairSpec == RunInit /\ [][RunNext]_vars /\ RunFairness

\* ---------------------------------------------------- reconciler properties

\* C1: a call that repeats the call before it (same URL, same snapshot, no
\* store call failing in either) takes the existing-playlist path, inserts no
\* playlist-video row and leaves the playlist's videos_saved as it was.
C1_RerunAddsNothing ==
  (lastSync.repeats /\ lastSync.clean) =>
     /\ lastSync.path = "existing"
     /\ lastSync.inserted = 0
     /\ playlists[lastSync.pid].saved = lastSync.savedBefore

\* A second identical call has run against a playlist that holds two videos.
C1_Witness ==
  /\ lastSync.repeats
  /\ lastSync.clean
  /\ lastSync.path = "existing"
  /\ Len(lastSync.snap) = 2
  /\ lastSync.snap[1] # lastSync.snap[2]
  /\ lastSync.savedBefore = 2

\* C2: no two playlist_videos rows of a playlist have the same
\* (playlist_id, video_id).
C2_NoDuplicateEntries ==
  \A i, j \in DOMAIN videos :
    (i # j /\ videos[i].pid # 0 /\ videos[i].pid = videos[j].pid)
      => videos[i].vid # videos[j].vid

\* C3: at most one playlists row exists per source URL.
C3_OnePlaylistPerURL ==
  \A i, j \in DOMAIN playlists :
    i # j => playlists[i].url # playlists[j].url

\* C12: a call on an existing playlist in which no store call fails inserts
\* one row for each snapshot video id that the playlist did not have, and
\* nothing else, adds their number to videos_saved and sets total_videos to
\* the snapshot length.
C12_ExistingAddsOnlyAbsent ==
  [][(syncRuns' # syncRuns /\ lastSync'.path = "existing" /\ lastSync'.clean)
       => LET pid == lastSync'.pid
              snap == lastSync'.snap
              absent == {snap[i] : i \in {k \in DOMAIN snap :
                           ~\E r \in DOMAIN videos :
                              videos[r].pid = pid /\ videos[r].vid = snap[k]}}
              n == Len(videos)
          IN /\ Len(videos') = n + Cardinality(absent)
             /\ SubSeq(videos', 1, n) = videos
             /\ {videos'[r].vid : r \in (n + 1)..Len(videos')} = absent
             /\ \A r \in (n + 1)..Len(videos') : videos'[r].pid = pid
             /\ lastSync'.inserted = Cardinality(absent)
             /\ playlists'[pid].saved = playlists[pid].saved
                                          + Cardinality(absent)
             /\ playlists'[pid].total = Len(snap)]_vars

\* A playlist that held one video has been run with a snapshot of two: one
\* row was added.
C12_Witness ==
  /\ lastSync.path = "existing"
  /\ lastSync.clean
  /\ Len(lastSync.snap) = 2
  /\ lastSync.savedBefore = 1
  /\ lastSync.inserted = 1
  /\ playlists[lastSync.pid].saved = 2

\* C13: no call changes the videos_downloaded of a playlist, whatever store
\* call fails.
C13_DownloadedUntouched ==
  [][\A p \in DOMAIN playlists :
       playlists'[p].downloaded = playlists[p].downloaded]_vars

\* A call on an existing playlist has written the playlist's counts.
C13_Witness ==
  /\ lastSync.path = "existing"
  /\ lastSync.inserted = 1
  /\ playlists[lastSync.pid].saved = lastSync.savedBefore + 1
  /\ playlists[lastSync.pid].total = Len(lastSync.snap)

\* C14: a call that finds no playlist for the URL and creates one has added
\* one row per insertion that succeeded, the new record's videos_saved is
\* that number and its total_videos the snapshot length; when no store call
\* fails the rows added are the snapshot's videos, all of them, in order.
C14_NewCountsSuccessfulInserts ==
  [][(syncRuns' # syncRuns /\ lastSync'.path = "new"
        /\ lastSync'.outcome = "ok")
       => LET pid == lastSync'.pid
              snap == lastSync'.snap
              n == Len(videos)
          IN /\ Len(playlists') = Len(playlists) + 1
             /\ pid = Len(playlists')
             /\ playlists'[pid].saved = Len(videos') - n
             /\ playlists'[pid].saved = lastSync'.inserted
             /\ playlists'[pid].total = Len(snap)
             /\ Len(videos') <= n + Len(snap)
             /\ lastSync'.clean =>
                  /\ Len(videos') = n + Len(snap)
                  /\ \A i \in DOMAIN snap : videos'[n + i].vid = snap[i]]_vars

\* A playlist was created from a snapshot of two videos of which one insert
\* failed: videos_saved is 1, total_videos 2.
C14_Witness ==
  /\ lastSync.path = "new"
  /\ lastSync.outcome = "ok"
  /\ Len(lastSync.snap) = 2
  /\ playlists[lastSync.pid].saved = 1
  /\ playlists[lastSync.pid].total = 2

\* C15: with every store call succeeding, a call that finds no playlist for
\* the URL and gets three distinct videos leaves one playlist for the URL
\* with three entries, videos_saved 3 and total_videos 3; a call that follows
\* it for the same URL with the same three videos and one new video after
\* them inserts exactly one entry and sets videos_saved to 4.
C15_ThreeThenFour ==
  /\ []((lastSync.path = "new" /\ Len(lastSync.snap) = 3) =>
          /\ Cardinality({p \in DOMAIN playlists :
                            playlists[p].url = lastSync.url}) = 1
          /\ Cardinality({r \in DOMAIN videos :
                            videos[r].pid = lastSync.pid}) = 3
          /\ playlists[lastSync.pid].saved = 3
          /\ playlists[lastSync.pid].total = 3)
  /\ [][(/\ lastSync.path = "new"
         /\ Len(lastSync.snap) = 3
         /\ syncRuns' # syncRuns
         /\ lastSync'.url = lastSync.url
         /\ Len(lastSync'.snap) = 4
         /\ SubSeq(lastSync'.snap, 1, 3) = lastSync.snap)
          => /\ lastSync'.path = "existing"
             /\ lastSync'.pid = lastSync.pid
             /\ lastSync'.inserted = 1
             /\ Len(videos') = Len(videos) + 1
             /\ videos'[Len(videos')].vid = lastSync'.snap[4]
             /\ videos'[Len(videos')].pid = lastSync.pid
             /\ playlists'[lastSync.pid].saved = 4
             /\ playlists'[lastSync.pid].total = 4]_vars

\* The second call of the scenario has run.
C15_Witness ==
  /\ syncRuns = 2
  /\ lastSync.path = "existing"
  /\ lastSync.savedBefore = 3
  /\ Len(lastSync.snap) = 4
  /\ lastSync.inserted = 1
  /\ playlists[lastSync.pid].saved = 4
  /\ Len(videos) = 4

\* C16: a call whose snapshot has no videos ends with the no-videos error,
\* and leaves both tables as they were.
C16_NoVideosTouchesNothing ==
  /\ []((lastSync.outcome \in {"ok", "insertPlaylistErr", "noVideos"}
           /\ Len(lastSync.snap) = 0) => lastSync.outcome = "noVideos")
  /\ [][(syncRuns' # syncRuns /\ Len(lastSync'.snap) = 0
           /\ lastSync'.outcome \notin {"notInstalled", "extractErr"})
          => playlists' = playlists /\ videos' = videos]_vars

\* A call with an empty snapshot has returned for a URL that has a record.
C16_Witness ==
  /\ lastSync.outcome = "noVideos"
  /\ \E p \in DOMAIN playlists : playlists[p].url = lastSync.url

\* --------------------------------------------------------- runner properties

\* C4: a job's status is pending until the call's one status write, the call
\* issues exactly one status write before it returns, the write stores a
\* terminal status, and the status of a job that has a terminal status is
\* never changed again.
C4_TerminalWrittenOnce ==
  /\ [](run.job # 0 =>
          /\ run.calls <= 1
          /\ run.calls = 0 => downloads[run.job].status = "pending"
          /\ run.pc = "idle" => run.calls = 1
          /\ (run.pc = "idle" /\ run.statusOk) =>
               downloads[run.job].status \in {"completed", "failed",
                                              "cancelled"})
  /\ [][\A j \in DOMAIN downloads :
          downloads[j].status \in {"completed", "failed", "cancelled"}
            => downloads'[j].status = downloads[j].status]_vars

\* Two jobs have ended, one completed, the other not.
C4_Witness ==
  /\ Len(downloads) = 2
  /\ run.pc = "idle"
  /\ downloads[1].status = "completed"
  /\ downloads[2].status \in {"failed", "cancelled"}

C6_CancelledOnlyByCancellation ==
  (run.pc = "idle" /\ run.job # 0 /\ faults = 0) =>
     /\ downloads[run.job].status = "cancelled"
          => run.err \in {"killed", "ctx"}
     /\ run.err \in {"exit", "start"}
          => downloads[run.job].status = "failed"

\* C7 as stated: the interrupt arrived while the process was running, so the
\* call returns with the token activated, the process killed and the flag
\* set.
C7_InterruptAlwaysKills ==
  (run.sigRun /\ run.pc = "idle") =>
     /\ run.ctxDone
     /\ run.proc = "killed"
     /\ run.cancelled

\* C7, amended: after an interrupt that arrives while the process is
\* running the call eventually returns, and either the process ended on its
\* own first, or the token was activated, the process was killed and the
\* caller found the flag set.
C7_InterruptLeadsToReturn ==
  (run.sigRun /\ run.pc # "idle") ~>
     /\ run.sigRun
     /\ run.pc = "idle"
     /\ \/ run.proc \in {"exit0", "exitErr"}
        \/ /\ run.ctxDone
           /\ run.proc = "killed"
           /\ run.cancelled
           /\ run.saw

\* The interrupt came while the process was running, the watcher killed it
\* and the call returned on the cancelled branch.
C7_Witness ==
  /\ run.sigRun
  /\ run.pc = "idle"
  /\ run.watcher = "off"
  /\ run.proc = "killed"
  /\ run.gpc = "done"
  /\ run.ret = "download cancelled"

\* C8: in no state is the stored status of the job of the call cancelled
\* while cleanupPartFiles has not run, and from then on the directory holds
\* no partial file but those whose removal failed.
C8_CleanupBeforeCancelled ==
  (run.job # 0 /\ downloads[run.job].status = "cancelled") =>
     /\ run.cleaned
     /\ {e \in dir : ~e.isDir /\ e.ext \in {".part", ".ytdl", ".temp"}}
          = run.notRemoved

\* A cancelled status is stored for a job whose process left partial files.
C8_Witness ==
  /\ run.job # 0
  /\ downloads[run.job].status = "cancelled"
  /\ run.cleaned
  /\ DirPart \in dir
  /\ FilePart \notin dir

\* C9: a call whose download ended in error and which did not find the
\* cancellation flag set has run the cleanup (no partial file is left but
\* those whose removal failed) and has written status failed with the text
\* of the error; the job record holds both when the write succeeded.
C9_FailedKeepsErrorText ==
  (run.pc = "idle" /\ run.job # 0 /\ run.err # "nil" /\ ~run.saw) =>
     /\ run.cleaned
     /\ {e \in dir : ~e.isDir /\ e.ext \in {".part", ".ytdl", ".temp"}}
          = run.notRemoved
     /\ run.calls = 1
     /\ run.statusOk =>
          /\ downloads[run.job].status = "failed"
          /\ downloads[run.job].filePath = ""
          /\ downloads[run.job].error =
               (CASE run.err = "start" ->
                       "fork/exec yt-dlp: resource temporarily unavailable"
                  [] run.err = "exit" -> "exit status 1"
                  [] run.err = "killed" -> "signal: killed"
                  [] OTHER -> "context canceled")

\* The process exited non-zero leaving partial files, nobody interrupted,
\* and the job is failed with "exit status 1".
C9_Witness ==
  /\ run.pc = "idle"
  /\ run.job # 0
  /\ run.err = "exit"
  /\ ~run.sigSent
  /\ DirPart \in dir
  /\ downloads[run.job].status = "failed"
  /\ downloads[run.job].error = "exit status 1"

\* C10: a call made while the tool is not installed returns the
\* not-installed error, starts no process and leaves every table as it was.
C10_NotInstalledTouchesNothing ==
  /\ [](/\ ~lastSync.installed =>
             lastSync.outcome = "notInstalled" /\ lastSync.procs = 0
        /\ ~run.installed =>
             run.ret = "notInstalled" /\ run.pc = "idle" /\ run.procs = 0)
  /\ [][/\ (syncRuns' # syncRuns /\ ~lastSync'.installed) =>
             playlists' = playlists /\ videos' = videos
        /\ ~run'.installed => downloads' = downloads /\ dir' = dir]_vars

\* A call with the tool missing has returned, the store holding the job of
\* an earlier call.
C10_Witness ==
  /\ ~run.installed
  /\ run.ret = "notInstalled"
  /\ Len(downloads) = 1

\* C11 as stated: no external process has been started by a call that has
\* not yet inserted its job record.
C11_NoProcessBeforeRecord ==
  run.procs > 0 => run.job # 0

\* C11, amended: the download process of a call is started only after the
\* call has inserted its job record, whose status is pending at that moment
\* (the metadata process has run before the insert).
C11_PendingBeforeDownload ==
  /\ [](run.proc # "none" => (run.job # 0 /\ run.job \in DOMAIN downloads))
  /\ [][(run.pc = "launch" /\ run'.pc # "launch")
          => /\ run.job \in DOMAIN downloads
             /\ downloads[run.job].status = "pending"
             /\ downloads[run.job].url = run.url]_vars

\* The download process runs, after the metadata process, with the job
\* pending.
C11_Witness ==
  /\ run.proc = "running"
  /\ run.procs = 2
  /\ downloads[run.job].status = "pending"

\* ---------------------------------------------------- line handler properties

\* C17: while an invocation of the handler is between its check of an
\* accumulator and the write that follows it, the other reader is not in the
\* handler.
C17_HandlerNotInterleaved ==
  \A r \in Readers : \A q \in Readers \ {r} :
    run.rd[r].pc \in {"titleW", "emit"} => run.rd[q].pc = "scan"

\* C18: in one call the handler writes the job's title at most once, so the
\* captured title is never replaced.
C18_TitleWrittenOnce ==
  run.titleWrites <= 1

\* C19: when the invocations of the handler follow one another, every
\* emission differs from the emission before it and is what lastOutput holds
\* afterwards, one line gives at most one emission, and lastOutput is the
\* latest emission in every state.
C19_EmitOnlyWhenChanged ==
  /\ [](~run.overlap => run.lastOutput = run.lastEmitted)
  /\ [][(run'.emits # run.emits /\ run'.job = run.job /\ ~run'.overlap)
          => /\ run'.emits = run.emits + 1
             /\ run'.lastEmitted # run.lastEmitted
             /\ run'.lastOutput = run'.lastEmitted]_vars

\* The 50% update has been emitted and the same line has arrived again; its
\* invocation is at the comparison.
C19_Witness ==
  /\ ~run.overlap
  /\ run.emits = 1
  /\ run.lastEmitted = "Progress: 50.0% | ETA: 00:05"
  /\ run.rd["stdout"].pc = "prog"
  /\ run.rd["stdout"].line = LineProg50

\* C20: after the title step of an already-downloaded line that found no
\* title captured, a title is captured.
C20_AlreadyDownloadedCaptures ==
  \A r \in Readers :
    (run.rd[r].pc = "prog" /\ run.rd[r].line = LineAlready /\ run.rd[r].saw)
      => run.videoTitle # ""

\* C21: on each stream the handler is called for the lines in the order the
\* process wrote them, one call after the other: the call that follows
\* `n` calls is for line n + 1 of the stream, and starts when the reader is
\* between calls.
C21_StreamOrderKept ==
  /\ [](\A r \in Readers :
          /\ run.cur[r] = run.rdN[r]
          /\ run.rdN[r] <= run.wr[r])
  /\ [][\A r \in Readers :
          (run'.job = run.job /\ run'.rdN[r] # run.rdN[r])
            => /\ run.rd[r].pc = "scan"
               /\ run'.rd[r].pc = "title"
               /\ run'.rdN[r] = run.rdN[r] + 1
               /\ run'.cur[r] = run.cur[r] + 1]_vars

\* The process wrote two lines on stdout before the reader took the first;
\* the handler is now called for the second.
C21_Witness ==
  /\ run.wr["stdout"] = 2
  /\ run.cur["stdout"] = 2
  /\ run.rd["stdout"].pc = "title"

====
